---------------------------- MODULE Spec2Model ----------------------------
(***************************************************************************)
(* A model of feature.js (src/feature.js): the vendor-prefix resolver      *)
(* util.pfx with its memo table, the old-device test util.old, the         *)
(* catalog of feature probes and the aggregator testAll.                   *)
(*                                                                         *)
(* JavaScript strings are sequences of one-character strings, so that      *)
(* concatenation, join, split and case conversion are computed as the      *)
(* code computes them.  The host environment (window, document,            *)
(* navigator) is a set of facts; the callers of the library and the        *)
(* changes of the environment are the actions.                             *)
(***************************************************************************)
EXTENDS Naturals, Sequences, FiniteSets

VARIABLES
  userAgent,  \* navigator.userAgent as it is now
  style,      \* the names n for which style[n] !== undefined (line 53, 62)
  env,        \* the other facts of the host environment that hold now
  old,        \* util.old, computed once when the module is loaded (line 46)
  memory,     \* the memo table of util.pfx (line 55)
  className,  \* docEl.className (line 28, 250)
  last,       \* the last call made by a caller and what it returned; stale
              \* when the environment changed after it
  scans       \* per property name: how often its candidate names were scanned

vars == <<userAgent, style, env, old, memory, className, last, scans>>

---------------------------------------------------------------------------
(* Characters and strings                                                  *)

LowerCaseLetters ==
  <<"a","b","c","d","e","f","g","h","i","j","k","l","m",
    "n","o","p","q","r","s","t","u","v","w","x","y","z">>

UpperCaseLetters ==
  <<"A","B","C","D","E","F","G","H","I","J","K","L","M",
    "N","O","P","Q","R","S","T","U","V","W","X","Y","Z">>

\* String.prototype.toUpperCase on one character
charToUpperCase(c) ==
  IF \E i \in DOMAIN LowerCaseLetters : LowerCaseLetters[i] = c
  THEN UpperCaseLetters[CHOOSE i \in DOMAIN LowerCaseLetters : LowerCaseLetters[i] = c]
  ELSE c

\* String.prototype.toLowerCase on one character
charToLowerCase(c) ==
  IF \E i \in DOMAIN UpperCaseLetters : UpperCaseLetters[i] = c
  THEN LowerCaseLetters[CHOOSE i \in DOMAIN UpperCaseLetters : UpperCaseLetters[i] = c]
  ELSE c

toUpperCase(s) == [i \in 1..Len(s) |-> charToUpperCase(s[i])]

toLowerCase(s) == [i \in 1..Len(s) |-> charToLowerCase(s[i])]

\* s.charAt(i), with JavaScript's zero-based index: "" when out of range
charAt(s, i) == IF i + 1 \in 1..Len(s) THEN <<s[i + 1]>> ELSE <<>>

\* s.substr(i), zero-based: the rest of s from index i on
substr(s, i) == IF i + 1 \in 1..Len(s) THEN SubSeq(s, i + 1, Len(s)) ELSE <<>>

RECURSIVE join(_, _)
\* Array.prototype.join
join(arr, sep) ==
  IF arr = <<>> THEN <<>>
  ELSE IF Len(arr) = 1 THEN arr[1]
  ELSE arr[1] \o sep \o join(Tail(arr), sep)

\* String.prototype.split with a one-character separator: the pieces of s
\* between the occurrences of sep, in order
split(s, sep) ==
  LET at     == {i \in 1..Len(s) : <<s[i]>> = sep}
      cut(k) == IF k = 0 THEN 0
                ELSE IF k > Cardinality(at) THEN Len(s) + 1
                ELSE CHOOSE i \in at : Cardinality({j \in at : j < i}) = k - 1
  IN  [k \in 1..(Cardinality(at) + 1) |-> SubSeq(s, cut(k - 1) + 1, cut(k) - 1)]

Space == <<" ">>

---------------------------------------------------------------------------
(* JavaScript values held in the memo table and returned by util.pfx       *)

Undefined == [t |-> "undefined", s |-> <<>>]
Null      == [t |-> "null", s |-> <<>>]
Str(s)    == [t |-> "string", s |-> s]

---------------------------------------------------------------------------
(* util.pfx, lines 52-70                                                   *)

perspective     == <<"p","e","r","s","p","e","c","t","i","v","e">>
transformOrigin == <<"t","r","a","n","s","f","o","r","m","O","r","i","g","i","n">>
transition      == <<"t","r","a","n","s","i","t","i","o","n">>

\* line 54 with its elements in another order
prefixesMozFirst ==
  << <<"M","o","z">>, <<"W","e","b","k","i","t">>, <<"O">>, <<"m","s">> >>

\* line 54
prefixes ==
  << <<"W","e","b","k","i","t">>, <<"M","o","z">>, <<"O">>, <<"m","s">> >>

\* line 58
ucProp(prop) == toUpperCase(charAt(prop, 0)) \o substr(prop, 1)

\* line 59
props(prop) ==
  split(prop \o Space \o join(prefixes, ucProp(prop) \o Space) \o ucProp(prop),
        Space)

RECURSIVE scan(_, _, _)
\* lines 60-66: the for-in loop over props from index i on.  value is what
\* memory[prop] holds after the loop, checks the number of times the test
\* style[props[i]] !== undefined of line 62 was evaluated.
scan(ps, i, sty) ==
  IF i > Len(ps) THEN [value |-> Null, checks |-> 0]
  ELSE IF ps[i] \in sty THEN [value |-> Str(ps[i]), checks |-> 1]
  ELSE LET r == scan(ps, i + 1, sty)
       IN  [value |-> r.value, checks |-> r.checks + 1]

\* lines 60-66 and 68: r is the outcome of the loop; the memo entry is
\* written and returned
memoized(prop, mem, r) ==
  [ret |-> r.value, memory |-> [mem EXCEPT ![prop] = r.value],
   checks |-> r.checks, scanned |-> TRUE]

\* lines 56-69 with the test of line 57 left out: every call scans again
pfxNoMemo(prop, mem, sty) == memoized(prop, mem, scan(props(prop), 1, sty))

\* lines 56-69: the function util.pfx, on the memo table mem and the style
\* object sty.  ret is the value returned, memory the memo table afterwards.
pfx(prop, mem, sty) ==
  IF mem[prop] = Undefined
  THEN memoized(prop, mem, scan(props(prop), 1, sty))
  ELSE [ret |-> mem[prop], memory |-> mem, checks |-> 0, scanned |-> FALSE]

---------------------------------------------------------------------------
(* util.old, line 46: /(Android\s(1.|2.))|(Silk\/1.)/i.test(userAgent)     *)

WhiteSpace == {" ", "\t", "\n", "\r", "\f"}

LineTerminators == {"\n", "\r"}

\* s has the literal lit (given in lower case) at position i, ignoring case
hasLiteralAt(s, i, lit) ==
  /\ i + Len(lit) - 1 <= Len(s)
  /\ \A k \in 1..Len(lit) : charToLowerCase(s[i + k - 1]) = lit[k]

\* the regular expression's dot matches one character at position i
dotAt(s, i) == i <= Len(s) /\ s[i] \notin LineTerminators

\* the first alternative, Android\s(1.|2.), matches at position i
androidAt(s, i) ==
  /\ hasLiteralAt(s, i, <<"a","n","d","r","o","i","d">>)
  /\ i + 7 <= Len(s) /\ s[i + 7] \in WhiteSpace
  /\ \/ hasLiteralAt(s, i + 8, <<"1">>) /\ dotAt(s, i + 9)
     \/ hasLiteralAt(s, i + 8, <<"2">>) /\ dotAt(s, i + 9)

\* the second alternative, Silk\/1., matches at position i
silkAt(s, i) ==
  /\ hasLiteralAt(s, i, <<"s","i","l","k","/">>)
  /\ hasLiteralAt(s, i + 5, <<"1">>) /\ dotAt(s, i + 6)

\* RegExp.prototype.test: the expression matches somewhere in s
oldTest(s) == \E i \in 1..Len(s) : androidAt(s, i) \/ silkAt(s, i)

---------------------------------------------------------------------------
(* The host environment.  A fact <<object, property>> says that the        *)
(* object has the property; the remaining facts say what an operation of   *)
(* the host does.  Elements are named by their tag.                        *)

\* reading the global localStorage throws (storage disabled by policy)
StorageDenied == <<"localStorage", "SecurityError">>
\* assigning style.width throws
WidthThrows   == <<"style.width", "throws">>
\* getContext throws instead of returning a context or null
ContextThrows == <<"getContext", "throws">>

\* the result of evaluating a piece of code: a value, or an exception
Ret(v)   == [ret |-> v, exc |-> "none"]
Throw(x) == [ret |-> "undefined", exc |-> x]

Bool(b) == IF b THEN "true" ELSE "false"

\* a value in a boolean context (!!v, and the operands of && and ||)
Truthy(v) == v \in {"true", "function", "object"}

\* prop in obj
in(prop, obj, e) == <<obj, prop>> \in e

\* try { body } catch (err) { handler } with the catch clause left out
tryCatchNothing(body, handler) == body

\* try { body } catch (err) { handler }
tryCatch(body, handler) == IF body.exc # "none" THEN handler ELSE body

\* util.create, lines 39-41: the new element, named by its tag
create(el) == el

\* el.getContext(kind) on an element that has the method
getContext(kind, e) ==
  IF ContextThrows \in e THEN Throw("Error")
  ELSE Ret(IF in(kind, "getContext", e) THEN "object" ELSE "null")

---------------------------------------------------------------------------
(* The probes of the Feature object that read the environment only,        *)
(* lines 98-240                                                            *)

\* lines 99-101
addEventListener(e) == Ret(Bool(in("addEventListener", "window", e)))

\* lines 104-106: the function itself, or undefined
querySelectorAll(e) ==
  Ret(IF in("querySelectorAll", "document", e) THEN "function" ELSE "undefined")

\* lines 109-111
matchMedia(e) ==
  Ret(IF in("matchMedia", "window", e) THEN "function" ELSE "undefined")

\* lines 114-116
deviceMotion(e) == Ret(Bool(in("DeviceMotionEvent", "window", e)))

\* lines 119-121
deviceOrientation(e) == Ret(Bool(in("DeviceOrientationEvent", "window", e)))

\* lines 124-126
contextMenu(e) ==
  Ret(Bool(in("contextMenu", "docEl", e) /\ in("HTMLMenuItemElement", "window", e)))

\* lines 129-131
classList(e) == Ret(Bool(in("classList", "docEl", e)))

\* lines 134-136
placeholder(e) == Ret(Bool(in("placeholder", create("input"), e)))

\* line 141: reading localStorage throws, or the name is not defined, or the
\* two in-tests are made
localStorageBody(e) ==
  IF StorageDenied \in e THEN Throw("SecurityError")
  ELSE IF ~in("localStorage", "window", e) THEN Throw("ReferenceError")
  ELSE Ret(Bool(in("setItem", "localStorage", e) /\ in("removeItem", "localStorage", e)))

\* lines 139-145
localStorage(e) == tryCatch(localStorageBody(e), Ret("false"))

\* lines 148-150: window.history when that is falsy, else the in-test
historyAPI(e) ==
  IF ~in("history", "window", e) THEN Ret("undefined")
  ELSE Ret(Bool(in("pushState", "history", e)))

\* lines 153-155
serviceWorker(e) == Ret(Bool(in("serviceWorker", "navigator", e)))

\* lines 161-163 and 173-175: the assignment el.style.width = "1" + unit on
\* the element el, then the test that the value was kept
unitBody(el, unit, e) ==
  IF WidthThrows \in e THEN Throw("Error")
  ELSE Ret(Bool(in(unit, "CSS", e)))

\* lines 158-167
viewportUnit(e) == tryCatch(unitBody(create("dummy"), "vw", e), Ret("false"))

\* lines 170-179
remUnit(e) == tryCatch(unitBody(create("dummy"), "rem", e), Ret("false"))

\* lines 182-185: el.getContext && el.getContext("2d") on a "dummy" element
canvas(e) ==
  LET el == create("dummy")
  IN  IF ~in("getContext", el, e) THEN Ret("false")
      ELSE LET c == getContext("2d", e)
           IN  IF c.exc # "none" THEN c ELSE Ret(Bool(Truthy(c.ret)))

\* lines 188-190
svg(e) ==
  Ret(Bool(in("createElementNS", "document", e) /\ in("createSVGRect", "svg", e)))

\* line 196 on the element el: the constructor test short-circuits; calling
\* a getContext the element does not have is a TypeError
webGLBody(el, e) ==
  IF ~in("WebGLRenderingContext", "window", e) THEN Ret("false")
  ELSE IF ~in("getContext", el, e) THEN Throw("TypeError")
  ELSE LET c1 == getContext("webgl", e)
       IN  IF c1.exc # "none" THEN c1
           ELSE IF Truthy(c1.ret) THEN Ret("true")
           ELSE LET c2 == getContext("experimental-webgl", e)
                IN  IF c2.exc # "none" THEN c2 ELSE Ret(Bool(Truthy(c2.ret)))

\* lines 193-200: the element is a "dummy" element
webGL(e) == tryCatch(webGLBody(create("dummy"), e), Ret("false"))

\* lines 203-205
cors(e) ==
  Ret(Bool(in("XMLHttpRequest", "window", e) /\ in("withCredentials", "xhr", e)))

\* lines 208-210; window.navigator exists (line 46 read it)
touch(e) ==
  Ret(Bool(\/ in("ontouchstart", "window", e)
           \/ in("msPointerEnabled", "navigator", e) /\ in("MSGesture", "window", e)
           \/ in("DocumentTouch", "window", e) /\ in("DocumentTouch", "document", e)))

\* lines 213-215
async(e) == Ret(Bool(in("async", create("script"), e)))

\* lines 218-220
defer(e) == Ret(Bool(in("defer", create("script"), e)))

\* lines 223-225
geolocation(e) == Ret(Bool(in("geolocation", "navigator", e)))

\* lines 228-230
srcset(e) == Ret(Bool(in("srcset", create("img"), e)))

\* lines 233-235
sizes(e) == Ret(Bool(in("sizes", create("img"), e)))

\* lines 238-240
pictureElement(e) == Ret(Bool(in("HTMLPictureElement", "window", e)))

---------------------------------------------------------------------------
(* The three probes that use util.pfx, lines 81-96.  A probe's result      *)
(* carries, besides the value returned: the memo table afterwards, the     *)
(* value its call of util.pfx returned, the number of style tests made     *)
(* and the property names whose candidates were scanned.                   *)

NotCalled == [t |-> "not called", s |-> <<>>]

\* the result of a probe that does not call util.pfx
Plain(r, mem) ==
  [ret |-> r.ret, exc |-> r.exc, memory |-> mem, pfx |-> NotCalled,
   checks |-> 0, scanned |-> {}]

\* r !== null for the outcome r of a call util.pfx(prop), as a probe result
notNull(prop, r) ==
  [ret |-> Bool(r.ret # Null), exc |-> "none", memory |-> r.memory,
   pfx |-> r.ret, checks |-> r.checks,
   scanned |-> IF r.scanned THEN {prop} ELSE {}]

\* util.pfx(prop) !== null
resolves(prop, mem, sty) == notNull(prop, pfx(prop, mem, sty))

\* lines 81-84 without the operand !util.old
css3DtransformNoGate(o, mem, sty) == resolves(perspective, mem, sty)

\* lines 81-84: !util.old && ... does not call util.pfx when util.old holds
css3Dtransform(o, mem, sty) ==
  IF o THEN Plain(Ret("false"), mem) ELSE resolves(perspective, mem, sty)

\* lines 87-90
cssTransform(o, mem, sty) ==
  IF o THEN Plain(Ret("false"), mem) ELSE resolves(transformOrigin, mem, sty)

\* lines 93-96
cssTransition(o, mem, sty) == resolves(transition, mem, sty)

---------------------------------------------------------------------------
(* The Feature object, lines 79-253                                        *)

\* the probes in the order of their declaration
Catalog ==
  <<"css3Dtransform", "cssTransform", "cssTransition", "addEventListener",
    "querySelectorAll", "matchMedia", "deviceMotion", "deviceOrientation",
    "contextMenu", "classList", "placeholder", "localStorage", "historyAPI",
    "serviceWorker", "viewportUnit", "remUnit", "canvas", "svg", "webGL",
    "cors", "touch", "async", "defer", "geolocation", "srcset", "sizes",
    "pictureElement">>

\* the keys for-in enumerates on the Feature object (line 245)
FeatureKeys == Append(Catalog, "testAll")

\* the characters of each key
keyChars ==
  [ css3Dtransform |-> <<"c","s","s","3","D","t","r","a","n","s","f","o","r","m">>,
    cssTransform |-> <<"c","s","s","T","r","a","n","s","f","o","r","m">>,
    cssTransition |-> <<"c","s","s","T","r","a","n","s","i","t","i","o","n">>,
    addEventListener |-> <<"a","d","d","E","v","e","n","t","L","i","s","t","e","n","e","r">>,
    querySelectorAll |-> <<"q","u","e","r","y","S","e","l","e","c","t","o","r","A","l","l">>,
    matchMedia |-> <<"m","a","t","c","h","M","e","d","i","a">>,
    deviceMotion |-> <<"d","e","v","i","c","e","M","o","t","i","o","n">>,
    deviceOrientation |-> <<"d","e","v","i","c","e","O","r","i","e","n","t","a","t","i","o","n">>,
    contextMenu |-> <<"c","o","n","t","e","x","t","M","e","n","u">>,
    classList |-> <<"c","l","a","s","s","L","i","s","t">>,
    placeholder |-> <<"p","l","a","c","e","h","o","l","d","e","r">>,
    localStorage |-> <<"l","o","c","a","l","S","t","o","r","a","g","e">>,
    historyAPI |-> <<"h","i","s","t","o","r","y","A","P","I">>,
    serviceWorker |-> <<"s","e","r","v","i","c","e","W","o","r","k","e","r">>,
    viewportUnit |-> <<"v","i","e","w","p","o","r","t","U","n","i","t">>,
    remUnit |-> <<"r","e","m","U","n","i","t">>,
    canvas |-> <<"c","a","n","v","a","s">>,
    svg |-> <<"s","v","g">>,
    webGL |-> <<"w","e","b","G","L">>,
    cors |-> <<"c","o","r","s">>,
    touch |-> <<"t","o","u","c","h">>,
    async |-> <<"a","s","y","n","c">>,
    defer |-> <<"d","e","f","e","r">>,
    geolocation |-> <<"g","e","o","l","o","c","a","t","i","o","n">>,
    srcset |-> <<"s","r","c","s","e","t">>,
    sizes |-> <<"s","i","z","e","s">>,
    pictureElement |-> <<"p","i","c","t","u","r","e","E","l","e","m","e","n","t">>,
    testAll |-> <<"t","e","s","t","A","l","l">> ]

\* Feature[name](), for a probe name: the call with util.old = o, the memo
\* table mem, the style object sty and the environment e
Feature(name, o, mem, sty, e) ==
  CASE name = "css3Dtransform"    -> css3Dtransform(o, mem, sty)
    [] name = "cssTransform"      -> cssTransform(o, mem, sty)
    [] name = "cssTransition"     -> cssTransition(o, mem, sty)
    [] name = "addEventListener"  -> Plain(addEventListener(e), mem)
    [] name = "querySelectorAll"  -> Plain(querySelectorAll(e), mem)
    [] name = "matchMedia"        -> Plain(matchMedia(e), mem)
    [] name = "deviceMotion"      -> Plain(deviceMotion(e), mem)
    [] name = "deviceOrientation" -> Plain(deviceOrientation(e), mem)
    [] name = "contextMenu"       -> Plain(contextMenu(e), mem)
    [] name = "classList"         -> Plain(classList(e), mem)
    [] name = "placeholder"       -> Plain(placeholder(e), mem)
    [] name = "localStorage"      -> Plain(localStorage(e), mem)
    [] name = "historyAPI"        -> Plain(historyAPI(e), mem)
    [] name = "serviceWorker"     -> Plain(serviceWorker(e), mem)
    [] name = "viewportUnit"      -> Plain(viewportUnit(e), mem)
    [] name = "remUnit"           -> Plain(remUnit(e), mem)
    [] name = "canvas"            -> Plain(canvas(e), mem)
    [] name = "svg"               -> Plain(svg(e), mem)
    [] name = "webGL"             -> Plain(webGL(e), mem)
    [] name = "cors"              -> Plain(cors(e), mem)
    [] name = "touch"             -> Plain(touch(e), mem)
    [] name = "async"             -> Plain(async(e), mem)
    [] name = "defer"             -> Plain(defer(e), mem)
    [] name = "geolocation"       -> Plain(geolocation(e), mem)
    [] name = "srcset"            -> Plain(srcset(e), mem)
    [] name = "sizes"             -> Plain(sizes(e), mem)
    [] name = "pictureElement"    -> Plain(pictureElement(e), mem)

---------------------------------------------------------------------------
(* testAll, lines 243-251                                                  *)

\* String(v) for the values a probe returns, as " " + v converts them
String(v) ==
  CASE v = "true"      -> <<"t","r","u","e">>
    [] v = "false"     -> <<"f","a","l","s","e">>
    [] v = "undefined" -> <<"u","n","d","e","f","i","n","e","d">>
    [] v = "function"  -> <<"f","u","n","c","t","i","o","n"," ","(",")"," ","{","}">>

\* callee(): the probe when callee is one of Feature's functions, a
\* TypeError when it is not a function
call(callee, o, mem, sty, e) ==
  IF callee.type = "function" THEN Feature(callee.name, o, mem, sty, e)
  ELSE Plain(Throw("TypeError"), mem)

\* line 247, classes += " " + v, after the call that returned r
added(acc, r, v) ==
  IF r.exc # "none" THEN [acc EXCEPT !.exc = r.exc]
  ELSE [classes |-> acc.classes \o v,
        memory  |-> r.memory,
        scanned |-> acc.scanned \cup r.scanned,
        invoked |-> acc.invoked + 1,
        exc     |-> "none"]

\* lines 246-248 as
\*   if (test !== "testAll" && test !== "constructor" && this[test]())
\*     classes += " " + test;
testAllIterationCallingMember(test, acc, o, sty, e) ==
  IF test # "testAll" /\ test # "constructor"
  THEN LET r == call([type |-> "function", name |-> test], o, acc.memory, sty, e)
       IN  added(acc, r, IF Truthy(r.ret) THEN Space \o keyChars[test] ELSE <<>>)
  ELSE acc

\* " " + r for the outcome r of a call
spaceAnd(r) == IF r.exc # "none" THEN <<>> ELSE Space \o String(r.ret)

\* the outcome of line 247 when its call test() had the outcome r
line247(acc, r) == added(acc, r, spaceAnd(r))

\* lines 246-248, one iteration of the loop for the key test: this[test] is
\* the function (truthy), and test, the key itself, is what line 247 calls
testAllIteration(test, acc, o, sty, e) ==
  IF test # "testAll" /\ test # "constructor"
     /\ Truthy([type |-> "function", name |-> test].type)
  THEN line247(acc, call([type |-> "string", name |-> test], o, acc.memory, sty, e))
  ELSE acc

RECURSIVE testAllLoop(_, _, _, _, _)
\* line 245: the for-in loop from the i-th key on; an exception ends it
testAllLoop(i, acc, o, sty, e) ==
  IF i > Len(FeatureKeys) \/ acc.exc # "none" THEN acc
  ELSE testAllLoop(i + 1, testAllIteration(FeatureKeys[i], acc, o, sty, e),
                   o, sty, e)

\* line 250, reached when the loop ended without an exception.  writes is
\* the number of assignments to docEl.className.
line250(cls, acc) ==
  IF acc.exc # "none"
  THEN [className |-> cls, writes |-> 0, exc |-> acc.exc,
        memory |-> acc.memory, scanned |-> acc.scanned,
        invoked |-> acc.invoked]
  ELSE [className |-> cls \o toLowerCase(acc.classes), writes |-> 1,
        exc |-> "none", memory |-> acc.memory, scanned |-> acc.scanned,
        invoked |-> acc.invoked]

\* lines 243-251: feature.testAll() on the class attribute cls
testAll(cls, o, mem, sty, e) ==
  line250(cls,
          testAllLoop(1, [classes |-> <<" ","j","s">>, memory |-> mem,
                          scanned |-> {}, invoked |-> 0, exc |-> "none"],
                      o, sty, e))

---------------------------------------------------------------------------
(* The environments, style objects and user agents the callers run in      *)

\* a current browser
Modern ==
  { <<"window", "addEventListener">>, <<"document", "querySelectorAll">>,
    <<"window", "matchMedia">>, <<"window", "DeviceMotionEvent">>,
    <<"window", "DeviceOrientationEvent">>, <<"docEl", "classList">>,
    <<"input", "placeholder">>, <<"window", "localStorage">>,
    <<"localStorage", "setItem">>, <<"localStorage", "removeItem">>,
    <<"window", "history">>, <<"history", "pushState">>,
    <<"navigator", "serviceWorker">>, <<"CSS", "vw">>, <<"CSS", "rem">>,
    <<"canvas", "getContext">>, <<"getContext", "2d">>,
    <<"getContext", "webgl">>, <<"window", "WebGLRenderingContext">>,
    <<"document", "createElementNS">>, <<"svg", "createSVGRect">>,
    <<"window", "XMLHttpRequest">>, <<"xhr", "withCredentials">>,
    <<"script", "async">>, <<"script", "defer">>,
    <<"navigator", "geolocation">>, <<"img", "srcset">>, <<"img", "sizes">>,
    <<"window", "HTMLPictureElement">> }

\* an older touch device without WebGL, with the context-menu API
Mobile ==
  (Modern \ { <<"window", "WebGLRenderingContext">>, <<"getContext", "webgl">>,
              <<"navigator", "serviceWorker">>, <<"CSS", "vw">>,
              <<"localStorage", "removeItem">>, <<"history", "pushState">> })
  \cup { <<"window", "ontouchstart">>, <<"docEl", "contextMenu">>,
         <<"window", "HTMLMenuItemElement">>,
         <<"getContext", "experimental-webgl">> }

\* a current browser whose page added getContext to every element
\* (HTMLElement.prototype), so that unknown elements have it too
Patched == Modern \cup { <<"dummy", "getContext">> }

\* Patched, with storage denied and context creation and width assignment
\* throwing
Restricted == Patched \cup { StorageDenied, ContextThrows, WidthThrows }

Environments == {Modern, Mobile, Patched, Restricted}

\* the candidate names of a property, written out
candidates(prop, P) ==
  << prop, <<"W","e","b","k","i","t">> \o P, <<"M","o","z">> \o P,
     <<"O">> \o P, <<"m","s">> \o P >>

Perspective     == <<"P","e","r","s","p","e","c","t","i","v","e">>
TransformOrigin == <<"T","r","a","n","s","f","o","r","m","O","r","i","g","i","n">>
Transition      == <<"T","r","a","n","s","i","t","i","o","n">>
order           == <<"o","r","d","e","r">>
Order           == <<"O","r","d","e","r">>

\* the property names util.pfx is asked about: the three of lines 82, 88
\* and 94, and one more for the resolver on its own
PropNames == {perspective, transformOrigin, transition, order}

Capitalized(prop) ==
  CASE prop = perspective     -> Perspective
    [] prop = transformOrigin -> TransformOrigin
    [] prop = transition      -> Transition
    [] prop = order           -> Order

Range(f) == {f[i] : i \in DOMAIN f}

\* every set of recognized names among the candidates of one property
StyleSets ==
  UNION {SUBSET Range(candidates(p, Capitalized(p))) : p \in PropNames}

\* style objects: an engine without any of the properties, a current one,
\* an old WebKit, and one with mixed prefixes
StyleNone    == {}
StyleCurrent == {perspective, transformOrigin, transition,
                 <<"W","e","b","k","i","t">> \o Perspective,
                 <<"W","e","b","k","i","t">> \o Transition}
StyleWebkit  == {<<"W","e","b","k","i","t">> \o Perspective,
                 <<"W","e","b","k","i","t">> \o TransformOrigin,
                 <<"W","e","b","k","i","t">> \o Transition}
StyleMixed   == {perspective, <<"W","e","b","k","i","t">> \o Perspective,
                 <<"m","s">> \o TransformOrigin, <<"O">> \o Transition,
                 <<"M","o","z">> \o Transition}

StyleEnvs == {StyleNone, StyleCurrent, StyleWebkit, StyleMixed}

\* the style objects of the full program's runs
MainStyles == {StyleNone, StyleMixed}

\* pieces of user-agent strings
Linux   == <<"L","i","n","u","x",";"," ">>
Android == <<"A","n","d","r","o","i","d"," ">>
Silk    == <<"S","i","l","k","/">>

UADesktop   == <<"X","1","1",";"," ">> \o <<"L","i","n","u","x"," ","x","8","6">>
UAAndroid16 == Linux \o Android \o <<"1",".","6",";">>
UAAndroid23 == Linux \o <<"U",";"," ">> \o Android \o <<"2",".","3",".","6",";">>
UAandroid22 == Linux \o <<"a","n","d","r","o","i","d"," ","2",".","2">>
UAAndroid2  == Linux \o Android \o <<"2">>
UAAndroid44 == Linux \o Android \o <<"4",".","4",".","2",";">>
UAAndroid10 == Linux \o Android \o <<"1","0",";"," ","K">>
UAAndroid14 == Linux \o Android \o <<"1","4",";">>
UASilk10    == Linux \o Silk \o <<"1",".","0",".","2","2">>
UASilk3     == Linux \o Silk \o <<"3",".","6","8">>
UASilk108   == Linux \o Android \o <<"9",";"," ">> \o Silk \o <<"1","0","8",".","4">>

UserAgents ==
  {UADesktop, UAAndroid16, UAAndroid23, UAandroid22, UAAndroid2, UAAndroid44,
   UAAndroid10, UAAndroid14, UASilk10, UASilk3, UASilk108}

\* the user agents of the full program's runs
MainUserAgents == {UADesktop, UAAndroid23}

ClassNames == {<<>>, <<"n","o","-","j","s">>}

---------------------------------------------------------------------------
(* The state machine                                                       *)

\* a bound on the scans counted per property name
MaxScans == 2

\* again: the call is one of testAll that follows a call of testAll
NoCall ==
  [op |-> "none", arg |-> <<>>, ret |-> "undefined", exc |-> "none",
   pfx |-> NotCalled, checks |-> 0, invoked |-> 0, writes |-> 0,
   before |-> <<>>, again |-> FALSE, stale |-> FALSE]

\* lines 24-258: the module is loaded.  util.old is computed from the user
\* agent of that moment, the memo table is empty.
Loaded ==
  /\ old = oldTest(userAgent)
  /\ memory = [p \in PropNames |-> Undefined]
  /\ last = NoCall
  /\ scans = [p \in PropNames |-> 0]

Init ==
  /\ userAgent \in MainUserAgents
  /\ style \in MainStyles
  /\ env \in Environments
  /\ className \in ClassNames
  /\ Loaded

Counted(scanned) ==
  [p \in PropNames |-> IF p \in scanned THEN scans[p] + 1 ELSE scans[p]]

\* the call feature[name]() returns with the outcome r
ProbeReturns(name, r) ==
  /\ \A p \in r.scanned : scans[p] < MaxScans
  /\ last' = [op |-> name, arg |-> <<>>, ret |-> r.ret, exc |-> r.exc,
              pfx |-> r.pfx, checks |-> r.checks, invoked |-> 0,
              writes |-> 0, before |-> className, again |-> FALSE,
              stale |-> FALSE]
  /\ memory' = r.memory
  /\ scans' = Counted(r.scanned)
  /\ UNCHANGED <<userAgent, style, env, old, className>>

\* a caller calls feature[name](), and a call of the same probe that
\* directly preceded it stands for it
CallProbeOnce(name) ==
  IF last.op = name
  THEN /\ last' = [last EXCEPT !.stale = FALSE]
       /\ UNCHANGED <<userAgent, style, env, old, memory, className, scans>>
  ELSE ProbeReturns(name, Feature(name, old, memory, style, env))

\* a caller calls feature[name]()
CallProbe(name) == ProbeReturns(name, Feature(name, old, memory, style, env))

\* the call feature.testAll() ends with the outcome r
TestAllReturns(r) ==
  /\ \A p \in r.scanned : scans[p] < MaxScans
  /\ last' = [op |-> "testAll", arg |-> <<>>, ret |-> "undefined",
              exc |-> r.exc, pfx |-> NotCalled, checks |-> 0,
              invoked |-> r.invoked, writes |-> r.writes,
              before |-> className, again |-> (last.op = "testAll"),
              stale |-> FALSE]
  /\ className' = r.className
  /\ memory' = r.memory
  /\ scans' = Counted(r.scanned)
  /\ UNCHANGED <<userAgent, style, env, old>>

\* a caller calls feature.testAll()
CallTestAll == TestAllReturns(testAll(className, old, memory, style, env))

\* the set of style properties the engine recognizes changes
ChangeStyle ==
  /\ style' \in MainStyles \ {style}
  /\ last' = [last EXCEPT !.stale = TRUE]
  /\ UNCHANGED <<userAgent, env, old, memory, className, scans>>

\* the globals and host objects change (a polyfill is loaded, a permission
\* is withdrawn)
ChangeEnv ==
  /\ env' \in Environments \ {env}
  /\ last' = [last EXCEPT !.stale = TRUE]
  /\ UNCHANGED <<userAgent, style, old, memory, className, scans>>

\* navigator.userAgent changes
ChangeUserAgent ==
  /\ userAgent' \in MainUserAgents \ {userAgent}
  /\ last' = [last EXCEPT !.stale = TRUE]
  /\ UNCHANGED <<style, env, old, memory, className, scans>>

Next ==
  \/ \E name \in Range(Catalog) : CallProbe(name)
  \/ CallTestAll
  \/ ChangeStyle
  \/ ChangeEnv
  \/ ChangeUserAgent

Spec == Init /\ [][Next]_vars

---------------------------------------------------------------------------
(* The resolver on its own: util.pfx applied to every property name under  *)
(* every set of recognized candidate names                                 *)

InitPfx ==
  /\ userAgent = UADesktop
  /\ style \in StyleSets
  /\ env = Modern
  /\ className = <<>>
  /\ Loaded

\* the call util.pfx(prop) returns with the outcome r
PfxReturns(prop, r) ==
  /\ r.scanned => scans[prop] < MaxScans
  /\ last' = [NoCall EXCEPT !.op = "pfx", !.arg = prop, !.pfx = r.ret,
                            !.checks = r.checks]
  /\ memory' = r.memory
  /\ scans' = Counted(IF r.scanned THEN {prop} ELSE {})
  /\ UNCHANGED <<userAgent, style, env, old, className>>

\* util.pfx(prop)
Resolve(prop) == PfxReturns(prop, pfx(prop, memory, style))

NextPfx == \E prop \in PropNames : Resolve(prop)

SpecPfx == InitPfx /\ [][NextPfx]_vars

---------------------------------------------------------------------------
(* The denylist on its own: the module loaded under every user agent, and  *)
(* the two probes it gates called                                          *)

InitOld ==
  /\ userAgent \in UserAgents
  /\ style \in StyleEnvs
  /\ env = Modern
  /\ className = <<>>
  /\ Loaded

NextOld == \E name \in {"css3Dtransform", "cssTransform"} : CallProbe(name)

SpecOld == InitOld /\ [][NextOld]_vars

---------------------------------------------------------------------------
(* What the properties below speak of                                      *)

CssProbes == {"css3Dtransform", "cssTransform", "cssTransition"}

\* the property name each of the three probes resolves (lines 82, 88, 94)
propOf ==
  [css3Dtransform |-> perspective, cssTransform |-> transformOrigin,
   cssTransition |-> transition]

\* the first recognized name in the order p, Webkit+P, Moz+P, O+P, ms+P, or
\* null when none is recognized
FirstRecognized(p, sty) ==
  LET c    == candidates(p, Capitalized(p))
      hits == {i \in DOMAIN c : c[i] \in sty}
  IN  IF hits = {} THEN Null
      ELSE Str(c[CHOOSE i \in hits : \A j \in hits : i <= j])

\* the number of tokens "js" in a class attribute
JsTokens(cls) ==
  Cardinality({k \in DOMAIN split(cls, Space) : split(cls, Space)[k] = <<"j","s">>})

RECURSIVE TokensFrom(_)
\* " " + the lower-case name of every probe from the i-th on that returns a
\* truthy value in the current state, in catalog order
TokensFrom(i) ==
  IF i > Len(Catalog) THEN <<>>
  ELSE (IF Truthy(Feature(Catalog[i], old, memory, style, env).ret)
        THEN Space \o toLowerCase(keyChars[Catalog[i]])
        ELSE <<>>) \o TokensFrom(i + 1)

Digits == {"0","1","2","3","4","5","6","7","8","9"}

\* the digits of s from position i up to the first character that is none
DigitRun(s, i) ==
  LET stops == {j \in i..Len(s) : s[j] \notin Digits}
      stop  == IF stops = {} THEN Len(s) + 1
               ELSE CHOOSE j \in stops : \A k \in stops : j <= k
  IN  SubSeq(s, i, stop - 1)

\* the major versions s names after "Android" and a white space
AndroidMajors(s) ==
  {DigitRun(s, i + 8) : i \in {j \in 1..Len(s) :
      /\ hasLiteralAt(s, j, <<"a","n","d","r","o","i","d">>)
      /\ j + 7 <= Len(s) /\ s[j + 7] \in WhiteSpace}}

\* the major versions s names after "Silk/"
SilkMajors(s) ==
  {DigitRun(s, i + 5) : i \in {j \in 1..Len(s) :
      hasLiteralAt(s, j, <<"s","i","l","k","/">>)}}

\* s names Android major version 1 or 2, or Silk major version 1
NamesOldVersion(s) ==
  \/ <<"1">> \in AndroidMajors(s)
  \/ <<"2">> \in AndroidMajors(s)
  \/ <<"1">> \in SilkMajors(s)

---------------------------------------------------------------------------
(* C1: after one call of testAll the class attribute is its value before   *)
(* the call, then " js", then the lower-case name of every probe that      *)
(* returns a truthy value, in catalog order; the attribute is written      *)
(* once, after every probe was invoked.                                    *)
C1_TestAllAppendsTokens ==
  (last.op = "testAll" /\ ~last.stale) =>
     /\ className = last.before \o <<" ","j","s">> \o TokensFrom(1)
     /\ last.writes = 1
     /\ last.invoked = Len(Catalog)

(* C2: a call of testAll completes normally and returns nothing; it raises *)
(* no exception.                                                           *)
C2_TestAllRaisesNothing ==
  last.op = "testAll" => (last.exc = "none" /\ last.ret = "undefined")

(* C3: util.pfx(p) returns the first recognized name in the order p,       *)
(* Webkit+P, Moz+P, O+P, ms+P, and null when none of them is recognized.   *)
C3_FirstRecognizedWins ==
  last.op = "pfx" => last.pfx = FirstRecognized(last.arg, style)

\* the unprefixed name was returned although prefixed ones are recognized too
C3_UnprefixedWon ==
  /\ last.op = "pfx" /\ last.arg = transition
  /\ transition \in style /\ (<<"M","o","z">> \o Transition) \in style
  /\ last.pfx = Str(transition)

(* C4: the candidate names of a property are scanned at most once; when    *)
(* its memo entry exists, a call makes no style test and returns the       *)
(* entry, null included, and the entry is never changed or removed.        *)
C4_MemoScannedOnce ==
  [][\A p \in PropNames :
       /\ scans'[p] <= 1
       /\ memory[p] # Undefined =>
            /\ memory'[p] = memory[p]
            /\ scans'[p] = scans[p]
            /\ (last'.op \in CssProbes /\ ~last'.stale /\ propOf[last'.op] = p)
                 => (last'.checks = 0 /\ last'.pfx \in {memory[p], NotCalled})]_vars

\* a stored null was returned without a style test although the style now
\* recognizes a candidate name
C4_StoredNullReturned ==
  /\ last.op = "cssTransition" /\ ~last.stale
  /\ last.checks = 0 /\ last.pfx = Null /\ memory[transition] = Null
  /\ (<<"O">> \o Transition) \in style

(* C5: localStorage, viewportUnit, remUnit and webGL return false and      *)
(* raise nothing when the operation they rest on throws.                   *)
C5_ThrowingProbesReturnFalse ==
  ~last.stale =>
    /\ (last.op = "localStorage"
        /\ (StorageDenied \in env \/ <<"window", "localStorage">> \notin env))
         => (last.ret = "false" /\ last.exc = "none")
    /\ (last.op \in {"viewportUnit", "remUnit"} /\ WidthThrows \in env)
         => (last.ret = "false" /\ last.exc = "none")
    /\ (last.op = "webGL" /\ ContextThrows \in env)
         => (last.ret = "false" /\ last.exc = "none")

\* webGL was called where the constructor exists and getContext throws
C5_WebGLThrowCaught ==
  /\ last.op = "webGL" /\ ~last.stale
  /\ ContextThrows \in env
  /\ <<"window", "WebGLRenderingContext">> \in env
  /\ <<"dummy", "getContext">> \in env
  /\ last.ret = "false" /\ last.exc = "none"

(* C6: with util.old true, css3Dtransform and cssTransform return false;   *)
(* with util.old false each returns true exactly when its property is     *)
(* resolved to a name; cssTransition returns true exactly when             *)
(* "transition" is resolved to a name, whatever util.old is.               *)
C6_DenylistGatesTransforms ==
  /\ last.op \in {"css3Dtransform", "cssTransform"}
       => last.ret = Bool(~old /\ memory[propOf[last.op]].t = "string")
  /\ last.op = "cssTransition"
       => last.ret = Bool(memory[transition].t = "string")

\* css3Dtransform returned false on the denylist although the style
\* recognizes "perspective"
C6_GateOverrode ==
  /\ last.op = "css3Dtransform" /\ ~last.stale
  /\ old /\ perspective \in style
  /\ last.ret = "false"

(* C7: canvas returns true exactly when a canvas element offers            *)
(* getContext and yields a 2D context; webGL returns true exactly when     *)
(* WebGLRenderingContext exists and a canvas element yields a "webgl" or   *)
(* "experimental-webgl" context.                                           *)
C7_DrawingProbesDetect ==
  ~last.stale =>
    /\ last.op = "canvas" =>
         last.ret = Bool(/\ <<"canvas", "getContext">> \in env
                         /\ ContextThrows \notin env
                         /\ <<"getContext", "2d">> \in env)
    /\ last.op = "webGL" =>
         last.ret = Bool(/\ <<"window", "WebGLRenderingContext">> \in env
                         /\ <<"canvas", "getContext">> \in env
                         /\ ContextThrows \notin env
                         /\ \/ <<"getContext", "webgl">> \in env
                            \/ <<"getContext", "experimental-webgl">> \in env)

C10_OldOnlyForOldVersions ==
  last.op \in {"css3Dtransform", "cssTransform"} =>
     /\ old => NamesOldVersion(userAgent)
     /\ ~NamesOldVersion(userAgent) =>
          last.ret = Bool(FirstRecognized(propOf[last.op], style) # Null)

===========================================================================
